---- MODULE Spec2Model ----
(***************************************************************************)
(* Model of library/bigip_policy_rule.py: one Ansible module run            *)
(* (ModuleManager.exec_module) reconciling a policy rule against a BIG-IP.  *)
(*                                                                          *)
(* Python values are encoded as follows.                                    *)
(*   - a dict is a function from key strings to values; "k in d" is         *)
(*     k \in DOMAIN d;                                                      *)
(*   - None / a value is the option encoding <<>> / <<v>>;                  *)
(*   - a string whose characters the code inspects (a pool name, an item    *)
(*     name) is a sequence of tokens: "/Common/a" is                        *)
(*     <<"/", "Common", "/", "a">>, the name "10" is <<"1", "0">>;          *)
(*   - a path_begins_with_any value carries its Python type in a tag.       *)
(*                                                                          *)
(* The device stands behind the SDK: it keeps the items of a rule as they   *)
(* are sent, create/modify replace the lists they are given, draft()        *)
(* copies the published policy under Drafts and publish() moves the draft   *)
(* back.  What exec_module formats for the report (ReportableChanges) is    *)
(* not modelled beyond `changed` and the keys of self.changes.              *)
(***************************************************************************)
EXTENDS Integers, Sequences, FiniteSets, TLC

\* ---------------------------------------------------------------- bounds
\* Largest number of entries (actions plus conditions) of one task.
MaxItems == 2
\* Longest conditions list of the normalisation specification SpecNorm.
MaxNormLen == 11
\* Most entries of a SpecNorm list that carry a 'name' of their own.
MaxNamed == 1

\* ---------------------------------------------------------------- values
None == <<>>
Some(v) == <<v>>
IsNone(o) == Len(o) = 0
Get(o) == o[1]

Partition == "Common"

Digits == <<"0", "1", "2", "3", "4", "5", "6", "7", "8", "9">>

\* ord() of a digit character.
Ord(c) == CHOOSE i \in 1..10 : Digits[i] = c

\* str(idx) of a non-negative integer, as its sequence of digit characters.
RECURSIVE IntToStr(_)
IntToStr(n) ==
    IF n < 10 THEN <<Digits[n + 1]>>
    ELSE IntToStr(n \div 10) \o <<Digits[(n % 10) + 1]>>

\* Python's  a < b  on two strings: lexicographic on the characters.
RECURSIVE StrLess(_, _)
StrLess(a, b) ==
    IF Len(a) = 0 THEN Len(b) > 0
    ELSE IF Len(b) = 0 THEN FALSE
    ELSE IF Ord(a[1]) < Ord(b[1]) THEN TRUE
    ELSE IF Ord(a[1]) > Ord(b[1]) THEN FALSE
    ELSE StrLess(Tail(a), Tail(b))

\* The comparison of sorted(result, key=lambda x: x['name']).
NameLess(x, y) == StrLess(x.name, y.name)

RECURSIVE InsertByName(_, _)
InsertByName(x, s) ==
    IF Len(s) = 0 THEN <<x>>
    ELSE IF NameLess(x, s[1]) THEN <<x>> \o s
    ELSE <<s[1]>> \o InsertByName(x, Tail(s))

\* sorted(result, key=lambda x: x['name']): a stable sort by name.
RECURSIVE SortedByName(_)
SortedByName(s) ==
    IF Len(s) = 0 THEN <<>>
    ELSE InsertByName(s[Len(s)], SortedByName(SubSeq(s, 1, Len(s) - 1)))

\* Parameters._fqdn_name on a non-None value.
fqdn_name(value) ==
    IF value[1] # "/" THEN <<"/", Partition, "/">> \o value ELSE value

\* A raised exception, and a returned value.
Raise == [error |-> TRUE]
Return(v) == [error |-> FALSE, value |-> v]

\* ------------------------------------------------------------ dict helpers
Without(d, keys) == [k \in (DOMAIN d) \ keys |-> d[k]]

\* str(v) of the value stored under key k, as a character/token sequence.
BoolKeys == {"asm", "path", "startsWith", "forward", "enable", "httpUri"}
AtomKeys == {"type", "kind"}
StrOf(k, v) ==
    IF k \in BoolKeys THEN (IF v THEN <<"True">> ELSE <<"False">>)
    ELSE IF k = "values" THEN <<"[">> \o v \o <<"]">>
    ELSE IF k \in AtomKeys THEN <<v>>
    ELSE v

\* ------------------------------------------------- ModuleParameters (want)
\* ModuleParameters._handle_forward_action
handle_forward_action(action, item) ==
    IF "pool" \notin DOMAIN item THEN Raise
    ELSE Return(action @@ [type |-> "forward", pool |-> fqdn_name(item.pool)])

\* ModuleParameters._handle_enable_action
handle_enable_action(action, item) ==
    IF "asm_policy" \notin DOMAIN item THEN Raise
    ELSE Return(action @@ [type |-> "enable",
                           policy |-> fqdn_name(item.asm_policy),
                           asm |-> TRUE])

\* ModuleParameters._handle_http_uri_condition
handle_http_uri_condition(action, item) ==
    IF "path_begins_with_any" \notin DOMAIN item THEN Raise
    ELSE LET v == item.path_begins_with_any
             values == IF v.isList THEN v.items ELSE <<v.str>>
         IN Return(action @@ [type |-> "http_uri", path |-> TRUE,
                              startsWith |-> TRUE, values |-> values])

\* The name an entry gets: its own 'name', or str(idx), idx counted from 0.
EntryName(item, i) ==
    IF "name" \in DOMAIN item THEN item.name ELSE IntToStr(i - 1)

\* The for-loop of ModuleParameters.actions from entry i on.
RECURSIVE ActionsLoop(_, _, _)
ActionsLoop(items, i, result) ==
    IF i > Len(items) THEN Return(Some(SortedByName(result)))
    ELSE LET item == items[i]
             action == [name |-> EntryName(item, i)]
         IN IF item.type = "forward"
            THEN LET r == handle_forward_action(action, item)
                 IN IF r.error THEN Raise
                    ELSE ActionsLoop(items, i + 1, Append(result, r.value))
            ELSE IF item.type = "enable"
            THEN LET r == handle_enable_action(action, item)
                 IN IF r.error THEN Raise
                    ELSE ActionsLoop(items, i + 1, Append(result, r.value))
            ELSE IF item.type = "ignore"
            THEN Return(Some(<<[type |-> "ignore"]>>))
            ELSE ActionsLoop(items, i + 1, Append(result, action))

\* ModuleParameters.actions: None, or the normalised list, or an exception.
ModuleParameters_actions(p) ==
    IF IsNone(p.actions) THEN Return(None)
    ELSE ActionsLoop(Get(p.actions), 1, <<>>)

\* The for-loop of ModuleParameters.conditions from entry i on.
RECURSIVE ConditionsLoop(_, _, _)
ConditionsLoop(items, i, result) ==
    IF i > Len(items) THEN Return(Some(SortedByName(result)))
    ELSE LET item == items[i]
             action == [name |-> EntryName(item, i)]
         IN IF item.type = "http_uri"
            THEN LET r == handle_http_uri_condition(action, item)
                 IN IF r.error THEN Raise
                    ELSE ConditionsLoop(items, i + 1, Append(result, r.value))
            ELSE IF item.type = "all_traffic"
            THEN Return(Some(<<[type |-> "all_traffic"]>>))
            ELSE ConditionsLoop(items, i + 1, Append(result, action))

\* ModuleParameters.conditions
ModuleParameters_conditions(p) ==
    IF IsNone(p.conditions) THEN Return(None)
    ELSE ConditionsLoop(Get(p.conditions), 1, <<>>)

\* ---------------------------------------------------- ApiParameters (have)
InternalKeywords == {"kind", "generation", "selfLink", "poolReference"}

\* ApiParameters._remove_internal_keywords
remove_internal_keywords(resource) == Without(resource, InternalKeywords)

\* ApiAction with the type of a forward item set wrongly.
ApiActionWrongType(item0) ==
    LET item == remove_internal_keywords(item0)
    IN IF "forward" \in DOMAIN item
       THEN Without(item, {"forward"}) @@ [type |-> "enable"]
       ELSE IF "enable" \in DOMAIN item
       THEN Without(item, {"enable"}) @@ [type |-> "enable"]
       ELSE <<>>

\* One pass of the loop of ApiParameters.actions.
ApiAction(item0) ==
    LET item == remove_internal_keywords(item0)
    IN IF "forward" \in DOMAIN item
       THEN Without(item, {"forward"}) @@ [type |-> "forward"]
       ELSE IF "enable" \in DOMAIN item
       THEN Without(item, {"enable"}) @@ [type |-> "enable"]
       ELSE <<>>

\* One pass of the loop of ApiParameters.conditions.  The str(x) of every
\* value leaves a string as it is; values are strings here.
ApiCondition(item0) ==
    LET item == remove_internal_keywords(item0)
    IN IF "httpUri" \in DOMAIN item
       THEN Without(item, {"httpUri"}) @@ [type |-> "http_uri"]
       ELSE <<>>

\* sorted(result, key=lambda x: x['name']) raises KeyError on a dict without a
\* 'name', which is what the loops leave for an item of a type they do not know.
SortedOrKeyError(result) ==
    IF \E i \in 1..Len(result) : "name" \notin DOMAIN result[i] THEN Raise
    ELSE Return(SortedByName(result))

\* ApiParameters.actions without the [ignore] it gives a rule with no actions.
ApiParameters_actions_empty(ref) ==
    IF IsNone(ref) \/ "items" \notin DOMAIN Get(ref)
    THEN Return(<<>>)
    ELSE LET items == Get(ref).items
         IN SortedOrKeyError([i \in 1..Len(items) |-> ApiAction(items[i])])

\* ApiParameters.actions; ref is _values['actions'] (None, or actionsReference).
ApiParameters_actions(ref) ==
    IF IsNone(ref) \/ "items" \notin DOMAIN Get(ref)
    THEN Return(<<[type |-> "ignore"]>>)
    ELSE LET items == Get(ref).items
         IN SortedOrKeyError([i \in 1..Len(items) |-> ApiAction(items[i])])

\* ApiParameters.conditions without the [all_traffic] it gives a rule with no
\* conditions.
ApiParameters_conditions_empty(ref) ==
    IF IsNone(ref) \/ "items" \notin DOMAIN Get(ref)
    THEN Return(<<>>)
    ELSE LET items == Get(ref).items
         IN SortedOrKeyError([i \in 1..Len(items) |-> ApiCondition(items[i])])

\* ApiParameters.conditions; ref is _values['conditions'].
ApiParameters_conditions(ref) ==
    IF IsNone(ref) \/ "items" \notin DOMAIN Get(ref)
    THEN Return(<<[type |-> "all_traffic"]>>)
    ELSE LET items == Get(ref).items
         IN SortedOrKeyError([i \in 1..Len(items) |-> ApiCondition(items[i])])

\* ApiParameters(): the empty parameters ModuleManager starts with.
EmptyHave == [actions |-> None, conditions |-> None, description |-> None]

\* --------------------------------------------------------------- Difference
\* set(Difference.to_tuple(items)): the (key, str(value)) pairs of all items.
to_tuple(items) ==
    UNION { { <<k, StrOf(k, items[i][k])>> : k \in DOMAIN items[i] }
            : i \in 1..Len(items) }

\* Difference._diff_complex_items; have is never None (ApiParameters returns a
\* list), so the first test of the code never decides.
diff_complex_items(want, have) ==
    IF IsNone(want) THEN None
    ELSE IF to_tuple(Get(want)) \subseteq to_tuple(have) THEN None
    ELSE want

\* Difference._conditions_missing_default_rule_for_asm; result is what
\* _diff_complex_items gave for the actions.
conditions_missing_default_rule_for_asm(result, wantConditions, haveActions, haveConditions) ==
    LET actions == IF IsNone(result) THEN haveActions ELSE Get(result)
    IN IF \E i \in 1..Len(actions) : actions[i].type = "enable"
       THEN LET conditions == diff_complex_items(wantConditions, haveConditions)
            IN IF IsNone(conditions) THEN FALSE
               ELSE \E j \in 1..Len(Get(conditions)) :
                        Get(conditions)[j].type # "all_traffic"
       ELSE FALSE

\* The Difference.actions property: the change, or F5ModuleError.
Difference_actions(wantActions, wantConditions, haveActions, haveConditions) ==
    LET result == diff_complex_items(wantActions, haveActions)
    IN IF conditions_missing_default_rule_for_asm(result, wantConditions,
                                                  haveActions, haveConditions)
       THEN Raise
       ELSE Return(result)

\* The Difference.conditions property.
Difference_conditions(wantConditions, haveConditions) ==
    diff_complex_items(wantConditions, haveConditions)

\* Difference.__default, which compare() falls back to for 'description'.
Difference_default(attr1, attr2) == IF attr1 # attr2 THEN attr1 ELSE None

\* ModuleManager.changes before any change is found: UsableChanges().
NoChanges == [actions |-> None, conditions |-> None, description |-> None]

\* ModuleManager._update_changed_options: the `changed` dict (a key the dict
\* lacks is None here), or the exception a want/have property or
\* Difference.actions raises.
update_changed_options(p, hv) ==
    LET wa == ModuleParameters_actions(p)
        wc == ModuleParameters_conditions(p)
        ha == ApiParameters_actions(hv.actions)
        hc == ApiParameters_conditions(hv.conditions)
    IN IF wa.error \/ wc.error \/ ha.error \/ hc.error THEN Raise
       ELSE LET da == Difference_actions(wa.value, wc.value, ha.value, hc.value)
            IN IF da.error THEN Raise
               ELSE Return([actions |-> da.value,
                            conditions |-> Difference_conditions(wc.value, hc.value),
                            description |-> Difference_default(p.description,
                                                               hv.description)])

\* ------------------------------------------------------------ UsableChanges
\* The loop of UsableChanges.actions from entry i on.
RECURSIVE UsableActionsLoop(_, _, _)
UsableActionsLoop(actions, i, result) ==
    IF i > Len(actions) THEN result
    ELSE LET action == actions[i]
         IN IF "type" \notin DOMAIN action
            THEN UsableActionsLoop(actions, i + 1, result)
            ELSE IF action.type = "forward"
            THEN UsableActionsLoop(actions, i + 1,
                     Append(result, Without(action, {"type"}) @@ [forward |-> TRUE]))
            ELSE IF action.type = "enable"
            THEN UsableActionsLoop(actions, i + 1,
                     Append(result, Without(action, {"type"}) @@ [enable |-> TRUE]))
            ELSE IF action.type = "ignore" THEN <<>>
            ELSE UsableActionsLoop(actions, i + 1, Append(result, action))

\* UsableChanges.actions, as api_params() first reads it.
UsableChanges_actions(v) ==
    IF IsNone(v) THEN None ELSE Some(UsableActionsLoop(Get(v), 1, <<>>))

\* The loop of UsableChanges.conditions from entry i on.
RECURSIVE UsableConditionsLoop(_, _, _)
UsableConditionsLoop(conditions, i, result) ==
    IF i > Len(conditions) THEN result
    ELSE LET condition == conditions[i]
         IN IF "type" \notin DOMAIN condition
            THEN UsableConditionsLoop(conditions, i + 1, result)
            ELSE IF condition.type = "http_uri"
            THEN UsableConditionsLoop(conditions, i + 1,
                     Append(result, Without(condition, {"type"}) @@ [httpUri |-> TRUE]))
            ELSE IF condition.type = "all_traffic" THEN <<>>
            ELSE UsableConditionsLoop(conditions, i + 1, Append(result, condition))

\* UsableChanges.conditions, as api_params() first reads it.
UsableChanges_conditions(v) ==
    IF IsNone(v) THEN None ELSE Some(UsableConditionsLoop(Get(v), 1, <<>>))

\* Parameters.api_params on the UsableChanges: an attribute that is None is
\* filtered out, so None stands for a keyword the SDK call does not carry.
api_params(ch) ==
    [description |-> ch.description,
     actions |-> UsableChanges_actions(ch.actions),
     conditions |-> UsableChanges_conditions(ch.conditions)]

\* ------------------------------------------------------------------ device
\* The BIG-IP behind the SDK.  A policy is None (no such policy) or Some(rule),
\* rule being the rule named want.name: None (the policy has no such rule) or
\* Some([actions, conditions, description]).  The lists hold the items in the
\* form the REST API takes them; a rule without actions has no 'items' in its
\* actionsReference when read.
NoPolicy == None
NoRule == None
Policy(rule) == Some(rule)
PolicyExists(policy) == ~IsNone(policy)
HasRule(policy) == PolicyExists(policy) /\ ~IsNone(Get(policy))
RuleOf(policy) == Get(Get(policy))

PoolA == <<"/", "Common", "/", "a">>
PoolB == <<"/", "Common", "/", "b">>
AsmX == <<"/", "Common", "/", "x">>

DevForward(n, pool) == [name |-> n, forward |-> TRUE, pool |-> pool]
DevEnable(n, policy) == [name |-> n, enable |-> TRUE, policy |-> policy, asm |-> TRUE]
DevUri(n, values) ==
    [name |-> n, httpUri |-> TRUE, path |-> TRUE, startsWith |-> TRUE, values |-> values]
\* Items of types the module does not handle.
DevRedirect(n) == [name |-> n, redirect |-> TRUE]
DevHost(n) == [name |-> n, httpHost |-> TRUE]

\* What the REST API adds to an item when the rule is read with
\* expandSubcollections=true.
OnRead(item) == item @@ [kind |-> "state", fullPath |-> item.name]

Subcollection(items) ==
    IF Len(items) = 0 THEN [isSubcollection |-> TRUE]
    ELSE [isSubcollection |-> TRUE,
          items |-> [i \in 1..Len(items) |-> OnRead(items[i])]]

\* resource.attrs of a loaded rule, as ApiParameters(params=...) stores them:
\* api_map files actionsReference under 'actions', conditionsReference under
\* 'conditions'.
ApiValues(rule) ==
    [actions |-> Some(Subcollection(rule.actions)),
     conditions |-> Some(Subcollection(rule.conditions)),
     description |-> rule.description]

\* rules.create(name=..., **params) on a policy.
DeviceCreate(args) ==
    [actions |-> IF IsNone(args.actions) THEN <<>> ELSE Get(args.actions),
     conditions |-> IF IsNone(args.conditions) THEN <<>> ELSE Get(args.conditions),
     description |-> args.description]

\* resource.modify(**params) on a rule: the keywords given replace the
\* attributes, the others stay.
DeviceModify(rule, args) ==
    [actions |-> IF IsNone(args.actions) THEN rule.actions ELSE Get(args.actions),
     conditions |-> IF IsNone(args.conditions) THEN rule.conditions
                    ELSE Get(args.conditions),
     description |-> IF IsNone(args.description) THEN rule.description
                     ELSE args.description]

\* ------------------------------------------------------------------- state
VARIABLES
    pub,        \* the published policy on the device
    draft,      \* its copy under Drafts
    params,     \* client.module.params and client.check_mode of the run
    pc,         \* where the run is
    op,         \* the branch exec_module took: create, update or remove
    have,       \* ModuleManager.have, the _values of the ApiParameters
    changes,    \* ModuleManager.changes, the _values of the UsableChanges
    redraft,    \* the local `redraft`
    calls,      \* the SDK calls of the run that change the device, in order
    result,     \* what exec_module gives: changed, or failed on an exception
    before,     \* the policy the run found (history)
    repeat,     \* whether the run repeats a successful state=present run (history)
    normIn,     \* SpecNorm: the conditions list given
    normOut     \* SpecNorm: ModuleParameters.conditions of it

vars == <<pub, draft, params, pc, op, have, changes, redraft, calls, result,
          before, repeat, normIn, normOut>>

\* ModuleManager.draft_exists
draft_exists == PolicyExists(draft)

\* The policy exists() and read_current_from_device() load: the draft when
\* there is one, the published policy otherwise.
LoadedPolicy == IF draft_exists THEN draft ELSE pub

NoArgs == [description |-> None, actions |-> None, conditions |-> None]

\* One SDK call as logged: its kind, whether it names subPath='Drafts',
\* whether a draft existed when it was issued, and its keywords.
Call(kind, onDrafts, args) ==
    [call |-> kind, onDrafts |-> onDrafts, draftExisted |-> draft_exists,
     args |-> args]


\* ------------------------------------------------------------------ inputs
SeqsUpTo(S, n) == UNION { [1..k -> S] : k \in 0..n }

\* Entries of the `actions` option (argument_spec: type, pool, asm_policy).
ActionEntries ==
    { [type |-> "forward", pool |-> <<"a">>],
      [type |-> "forward", pool |-> PoolA],
      [type |-> "enable", asm_policy |-> <<"x">>],
      [type |-> "ignore"] }

\* Entries of the `conditions` option; path_begins_with_any is a string or a
\* list of strings.
ConditionEntries ==
    { [type |-> "http_uri", path_begins_with_any |-> [isList |-> FALSE, str |-> "/u"]],
      [type |-> "http_uri", path_begins_with_any |-> [isList |-> TRUE, items |-> <<"/u">>]],
      [type |-> "all_traffic"] }

Descriptions == {None, Some("d")}

OptLists(S) == {None} \cup { Some(l) : l \in SeqsUpTo(S, MaxItems) }
OptLen(o) == IF IsNone(o) THEN 0 ELSE Len(Get(o))

\* The actions and conditions of a task: at most MaxItems entries in all.
ListPairs ==
    { ac \in OptLists(ActionEntries) \X OptLists(ConditionEntries) :
        OptLen(ac[1]) + OptLen(ac[2]) <= MaxItems }

\* The tasks: state=present with its lists, and state=absent.
ParamSet ==
    { [state |-> "present", check_mode |-> c, actions |-> ac[1],
       conditions |-> ac[2], description |-> d] :
        c \in BOOLEAN, d \in Descriptions, ac \in ListPairs }
    \cup
    { [state |-> "absent", check_mode |-> c, actions |-> None, conditions |-> None,
       description |-> None] : c \in BOOLEAN }

\* Rules the device may hold before the first run.
InitActions ==
    { <<>>,
      <<DevForward(<<"0">>, PoolA)>>,
      <<DevForward(<<"0">>, PoolB), DevForward(<<"1">>, PoolA)>>,
      <<DevEnable(<<"0">>, AsmX)>>,
      <<DevRedirect(<<"0">>)>> }

InitConditions ==
    { <<>>,
      <<DevUri(<<"0">>, <<"/u">>)>>,
      <<DevUri(<<"0">>, <<"/v">>), DevUri(<<"1">>, <<"/u">>)>>,
      <<DevHost(<<"0">>)>> }

InitRules ==
    {NoRule} \cup
    { Some([actions |-> a, conditions |-> c, description |-> None]) :
        a \in InitActions, c \in InitConditions }

PublishedRule ==
    Some([actions |-> <<DevForward(<<"0">>, PoolB)>>, conditions |-> <<>>,
          description |-> None])

\* The published policy and its draft before the first run: no draft, or a
\* draft of a policy never published, or a draft beside a published policy.
InitDevices ==
    { <<NoPolicy, NoPolicy>> }
    \cup { <<Policy(r), NoPolicy>> : r \in InitRules }
    \cup { <<pp, Policy(r)>> : pp \in {NoPolicy, Policy(PublishedRule)}, r \in InitRules }

IdleRun ==
    /\ params = [state |-> "present", check_mode |-> FALSE, actions |-> None,
                 conditions |-> None, description |-> None]
    /\ pc = "idle"
    /\ op = "none"
    /\ have = EmptyHave
    /\ changes = NoChanges
    /\ redraft = FALSE
    /\ calls = <<>>
    /\ result = [changed |-> FALSE, failed |-> FALSE]
    /\ before = NoPolicy
    /\ repeat = "no"

Init ==
    /\ \E d \in InitDevices : pub = d[1] /\ draft = d[2]
    /\ IdleRun
    /\ normIn = <<>>
    /\ normOut = Return(Some(<<>>))

\* ----------------------------------------------------------------- actions
Finish(changed) ==
    /\ pc' = "done"
    /\ result' = [changed |-> changed, failed |-> FALSE]

\* An exception ends the run: main() reports it with fail_json.
Fail ==
    /\ pc' = "done"
    /\ result' = [changed |-> FALSE, failed |-> TRUE]

\* ModuleManager.exists
exists == HasRule(LoadedPolicy)

\* The fields a run starts from.
StartRun ==
    /\ pc' = "exec"
    /\ op' = "none"
    /\ have' = EmptyHave
    /\ changes' = NoChanges
    /\ redraft' = FALSE
    /\ calls' = <<>>
    /\ result' = [changed |-> FALSE, failed |-> FALSE]
    /\ before' = LoadedPolicy

\* main(): a run starts with the parameters of a task.
Begin(p) ==
    /\ pc = "idle"
    /\ params' = p
    /\ StartRun
    /\ repeat' = "no"
    /\ UNCHANGED <<pub, draft, normIn, normOut>>

\* main() again, with the parameters of the run that has just ended; `repeat`
\* records whether that run was a state=present run outside check mode that
\* ended without an error, and whether it reported a change.
Rerun ==
    /\ pc = "done"
    /\ StartRun
    /\ repeat' = IF params.state = "present" /\ ~params.check_mode /\ ~result.failed
                 THEN (IF result.changed THEN "changed" ELSE "unchanged")
                 ELSE "no"
    /\ UNCHANGED <<pub, draft, params, normIn, normOut>>

\* exists() loads the policy first; the SDK raises when there is none.
LoadFails ==
    /\ pc = "exec"
    /\ ~PolicyExists(LoadedPolicy)
    /\ Fail
    /\ UNCHANGED <<pub, draft, params, op, have, changes, redraft, calls,
                   before, repeat, normIn, normOut>>

\* ModuleManager.should_update on self.have hv: the exception, or the new
\* self.changes and whether anything changed.
should_update(p, hv, ch) ==
    LET r == update_changed_options(p, hv)
    IN IF r.error THEN Raise
       ELSE IF r.value # NoChanges
            THEN Return([changes |-> r.value, changed |-> TRUE])
            ELSE Return([changes |-> ch, changed |-> FALSE])

\* present() -> update(), up to the calls that change the device.
Update ==
    /\ pc = "exec"
    /\ PolicyExists(LoadedPolicy)
    /\ params.state = "present"
    /\ exists
    /\ op' = "update"
    /\ have' = ApiValues(RuleOf(LoadedPolicy))
    /\ LET r == should_update(params, have', changes)
       IN IF r.error THEN Fail /\ changes' = changes
          ELSE /\ changes' = r.value.changes
               /\ IF ~r.value.changed THEN Finish(FALSE)
                  ELSE IF params.check_mode THEN Finish(TRUE)
                  ELSE pc' = "draft" /\ result' = result
    /\ UNCHANGED <<pub, draft, params, redraft, calls, before, repeat, normIn, normOut>>

\* present() -> create(), up to the calls that change the device.
Create ==
    /\ pc = "exec"
    /\ PolicyExists(LoadedPolicy)
    /\ params.state = "present"
    /\ ~exists
    /\ op' = "create"
    /\ LET r == should_update(params, have, changes)
       IN IF r.error THEN Fail /\ changes' = changes
          ELSE /\ changes' = r.value.changes
               /\ IF params.check_mode THEN Finish(TRUE)
                  ELSE pc' = "draft" /\ result' = result
    /\ UNCHANGED <<pub, draft, params, have, redraft, calls, before, repeat,
                   normIn, normOut>>

\* Remove returning True at once, in check mode or not.
RemoveReturnsAtOnce ==
    /\ pc = "exec"
    /\ PolicyExists(LoadedPolicy)
    /\ params.state = "absent"
    /\ exists
    /\ op' = "remove"
    /\ Finish(TRUE)
    /\ UNCHANGED <<pub, draft, params, have, changes, redraft, calls, before,
                   repeat, normIn, normOut>>

\* absent() -> remove(), up to the calls that change the device.
Remove ==
    /\ pc = "exec"
    /\ PolicyExists(LoadedPolicy)
    /\ params.state = "absent"
    /\ exists
    /\ op' = "remove"
    /\ IF params.check_mode THEN Finish(TRUE)
       ELSE pc' = "draft" /\ result' = result
    /\ UNCHANGED <<pub, draft, params, have, changes, redraft, calls, before,
                   repeat, normIn, normOut>>

\* absent() when exists() is False.
AbsentAlready ==
    /\ pc = "exec"
    /\ PolicyExists(LoadedPolicy)
    /\ params.state = "absent"
    /\ ~exists
    /\ Finish(FALSE)
    /\ UNCHANGED <<pub, draft, params, op, have, changes, redraft, calls,
                   before, repeat, normIn, normOut>>

\* EnsureDraft taking the draft to exist.
EnsureDraftAssumed ==
    /\ pc = "draft"
    /\ redraft' = TRUE
    /\ pc' = "mutate"
    /\ UNCHANGED <<pub, draft, params, op, have, changes, calls, result, before,
                   repeat, normIn, normOut>>

\* update()/create()/remove(): `if self.draft_exists(): redraft = True`, else
\* _create_existing_policy_draft_on_device(), which drafts the published policy.
EnsureDraft ==
    /\ pc = "draft"
    /\ IF draft_exists
       THEN /\ redraft' = TRUE
            /\ pc' = "mutate"
            /\ UNCHANGED <<draft, calls, result>>
       ELSE /\ redraft' = FALSE
            /\ calls' = Append(calls, Call("draft", FALSE, NoArgs))
            /\ IF PolicyExists(pub)
               THEN draft' = pub /\ pc' = "mutate" /\ result' = result
               ELSE Fail /\ draft' = draft
    /\ UNCHANGED <<pub, params, op, have, changes, before, repeat, normIn, normOut>>

\* ModuleManager.create_on_device
create_on_device ==
    /\ pc = "mutate"
    /\ op = "create"
    /\ LET args == api_params(changes)
       IN /\ calls' = Append(calls, Call("create", TRUE, args))
          /\ IF draft_exists
             THEN /\ draft' = Policy(Some(DeviceCreate(args)))
                  /\ pc' = "publish"
                  /\ result' = result
             ELSE Fail /\ draft' = draft
    /\ UNCHANGED <<pub, params, op, have, changes, redraft, before, repeat,
                   normIn, normOut>>

\* ModuleManager.update_on_device
update_on_device ==
    /\ pc = "mutate"
    /\ op = "update"
    /\ LET args == api_params(changes)
       IN /\ calls' = Append(calls, Call("modify", TRUE, args))
          /\ IF HasRule(draft)
             THEN /\ draft' = Policy(Some(DeviceModify(RuleOf(draft), args)))
                  /\ pc' = "publish"
                  /\ result' = result
             ELSE Fail /\ draft' = draft
    /\ UNCHANGED <<pub, params, op, have, changes, redraft, before, repeat,
                   normIn, normOut>>

\* ModuleManager.remove_from_device, and the exists() test remove() makes
\* after it ("Failed to delete the resource.").
remove_from_device ==
    /\ pc = "mutate"
    /\ op = "remove"
    /\ calls' = Append(calls, Call("delete", TRUE, NoArgs))
    /\ IF HasRule(draft)
       THEN /\ draft' = Policy(NoRule)
            /\ IF HasRule(draft') THEN Fail ELSE pc' = "publish" /\ result' = result
       ELSE Fail /\ draft' = draft
    /\ UNCHANGED <<pub, params, op, have, changes, redraft, before, repeat,
                   normIn, normOut>>

\* The end of update()/create()/remove(): `if redraft is False:
\* self.publish_on_device()`, then `return True`.
publish_on_device ==
    /\ pc = "publish"
    /\ IF redraft = FALSE
       THEN /\ calls' = Append(calls, Call("publish", TRUE, NoArgs))
            /\ IF draft_exists
               THEN pub' = draft /\ draft' = NoPolicy /\ Finish(TRUE)
               ELSE Fail /\ UNCHANGED <<pub, draft>>
       ELSE Finish(TRUE) /\ UNCHANGED <<pub, draft, calls>>
    /\ UNCHANGED <<params, op, have, changes, redraft, before, repeat, normIn, normOut>>

Next ==
    \/ \E p \in ParamSet : Begin(p)
    \/ Rerun
    \/ LoadFails
    \/ Update
    \/ Create
    \/ Remove
    \/ AbsentAlready
    \/ EnsureDraft
    \/ create_on_device
    \/ update_on_device
    \/ remove_from_device
    \/ publish_on_device

Spec == Init /\ [][Next]_vars

\* ------------------------------------------- normalisation of long lists
\* SpecNorm applies ModuleParameters.conditions to http_uri lists of up to
\* MaxNormLen entries, built one entry at a time.
NormEntries ==
    { [type |-> "http_uri", path_begins_with_any |-> [isList |-> FALSE, str |-> "/u"]],
      [type |-> "http_uri", path_begins_with_any |-> [isList |-> TRUE, items |-> <<"/v", "/w">>]] }

NamedEntry ==
    [type |-> "http_uri", name |-> <<"0">>,
     path_begins_with_any |-> [isList |-> FALSE, str |-> "/n"]]

NamedCount(items) == Cardinality({ i \in 1..Len(items) : "name" \in DOMAIN items[i] })

InitNorm ==
    /\ pub = NoPolicy
    /\ draft = NoPolicy
    /\ IdleRun
    /\ normIn = <<>>
    /\ normOut = Return(Some(<<>>))

Normalise(items) ==
    /\ normIn' = items
    /\ normOut' = ModuleParameters_conditions([conditions |-> Some(items)])
    /\ UNCHANGED <<pub, draft, params, pc, op, have, changes, redraft, calls,
                   result, before, repeat>>

AppendCondition ==
    /\ Len(normIn) < MaxNormLen
    /\ \E e \in NormEntries : Normalise(Append(normIn, e))

AppendNamedCondition ==
    /\ Len(normIn) < MaxNormLen
    /\ NamedCount(normIn) < MaxNamed
    /\ Normalise(Append(normIn, NamedEntry))

NextNorm ==
    \/ AppendCondition
    \/ AppendNamedCondition

SpecNorm == InitNorm /\ [][NextNorm]_vars

\* ------------------------------------------------------------------ claims
Ended == pc = "done" /\ ~result.failed
RealRun == ~params.check_mode
RuleBefore == RuleOf(before)
RuleNow == RuleOf(LoadedPolicy)
Mutations == {"create", "modify", "delete"}
CallsOf(kind) == { i \in 1..Len(calls) : calls[i].call = kind }
HasEntry(list, type) ==
    ~IsNone(list) /\ \E i \in 1..Len(Get(list)) : Get(list)[i].type = type

\* A device item is the desired entry: same name, type and pool / ASM policy /
\* URI values.
EntryMatches(dev, want) ==
    /\ dev.name = want.name
    /\ want.type = "forward" => "forward" \in DOMAIN dev /\ dev.pool = want.pool
    /\ want.type = "enable" => "enable" \in DOMAIN dev /\ dev.policy = want.policy
    /\ want.type = "http_uri" => "httpUri" \in DOMAIN dev /\ dev.values = want.values

ExactlyDesired(devList, wantList) ==
    /\ Len(devList) = Len(wantList)
    /\ \A i \in 1..Len(wantList) : \E j \in 1..Len(devList) :
           EntryMatches(devList[j], wantList[i])
    /\ \A j \in 1..Len(devList) : \E i \in 1..Len(wantList) :
           EntryMatches(devList[j], wantList[i])

\* C1: a run that repeats a state=present run, outside check mode and ended
\* without an error, with the same parameters on the device that run left,
\* issues no draft, create, modify, delete or publish call and ends reporting
\* changed=False.
C1_Idempotent ==
    repeat # "no" =>
        /\ calls = <<>>
        /\ pc = "done" => ~result.failed /\ ~result.changed

\* C1 witness: the repeat of a run that did change the rule has ended.
C1_Witness ==
    /\ repeat = "changed"
    /\ pc = "done"
    /\ ~result.changed
    /\ HasEntry(params.actions, "forward")

\* C2: after a state=present run outside check mode that ended without an
\* error, with an actions list without 'ignore' and a conditions list without
\* 'all_traffic' (each with an entry at least), the rule has exactly the
\* desired actions and conditions.
C2_Converges ==
    (/\ Ended /\ RealRun /\ params.state = "present"
     /\ OptLen(params.actions) > 0 /\ ~HasEntry(params.actions, "ignore")
     /\ OptLen(params.conditions) > 0 /\ ~HasEntry(params.conditions, "all_traffic"))
    => /\ HasRule(LoadedPolicy)
       /\ ExactlyDesired(RuleNow.actions, Get(ModuleParameters_actions(params).value))
       /\ ExactlyDesired(RuleNow.conditions,
                         Get(ModuleParameters_conditions(params).value))

\* C3: a state=absent run outside check mode that ended without an error
\* leaves the rule absent and reports changed=True if the rule existed, and
\* reports changed=False without any call if it did not.
C3_Absent ==
    (Ended /\ RealRun /\ params.state = "absent") =>
        IF HasRule(before)
        THEN ~HasRule(LoadedPolicy) /\ result.changed
        ELSE ~result.changed /\ calls = <<>>

\* C3 witness: an existing rule was removed through a new draft and published.
C3_Witness ==
    /\ Ended /\ RealRun /\ params.state = "absent"
    /\ HasRule(before)
    /\ ~HasRule(pub)
    /\ CallsOf("delete") # {}
    /\ CallsOf("publish") # {}

IgnoreRun ==
    /\ Ended /\ RealRun /\ params.state = "present"
    /\ HasRule(before)
    /\ HasEntry(params.actions, "ignore")

\* C4 as claimed: such a run leaves the rule without actions and reports
\* changed=True only if the rule had actions before.
C4_Original ==
    IgnoreRun =>
        /\ HasRule(LoadedPolicy) /\ RuleNow.actions = <<>>
        /\ result.changed => RuleBefore.actions # <<>>

\* C4 amended: a state=present run outside check mode, ended without an
\* error, on an existing rule and with an 'ignore' entry among the actions,
\* leaves the rule without actions; it changes the actions (its one modify
\* call carries actions=[]) exactly if the rule had actions before, and
\* reports changed=True exactly if the actions, the conditions or the
\* description changed.
C4_IgnoreClears ==
    IgnoreRun =>
        /\ HasRule(LoadedPolicy) /\ RuleNow.actions = <<>>
        /\ ~IsNone(changes.actions) <=> RuleBefore.actions # <<>>
        /\ RuleBefore.actions # <<>> =>
               /\ Cardinality(CallsOf("modify")) = 1
               /\ \A i \in CallsOf("modify") : calls[i].args.actions = Some(<<>>)
        /\ result.changed <=> changes # NoChanges

\* C4 witness: an 'ignore' run has emptied a rule that had actions.
C4_Witness ==
    /\ IgnoreRun
    /\ RuleBefore.actions # <<>>
    /\ RuleNow.actions = <<>>
    /\ result.changed

AllTrafficRun ==
    /\ Ended /\ RealRun /\ params.state = "present"
    /\ HasRule(before)
    /\ HasEntry(params.conditions, "all_traffic")

\* C5: a state=present run outside check mode, ended without an error, on an
\* existing rule and with an 'all_traffic' entry among the conditions, leaves
\* the rule without conditions (its modify call carries conditions=[] when
\* the rule had conditions), and reports no conditions change when the rule
\* had none.
C5_AllTrafficClears ==
    AllTrafficRun =>
        /\ HasRule(LoadedPolicy) /\ RuleNow.conditions = <<>>
        /\ RuleBefore.conditions # <<>> =>
               /\ Cardinality(CallsOf("modify")) = 1
               /\ \A i \in CallsOf("modify") : calls[i].args.conditions = Some(<<>>)
        /\ RuleBefore.conditions = <<>> =>
               /\ IsNone(changes.conditions)
               /\ \A i \in CallsOf("modify") : IsNone(calls[i].args.conditions)

\* C5 witness: an 'all_traffic' run has emptied a rule that had conditions.
C5_Witness ==
    /\ AllTrafficRun
    /\ RuleBefore.conditions # <<>>
    /\ RuleNow.conditions = <<>>
    /\ result.changed

NoExplicitName(items) == \A i \in 1..Len(items) : "name" \notin DOMAIN items[i]

\* The values ModuleParameters._handle_http_uri_condition gives an entry.
ValuesOf(item) ==
    IF item.path_begins_with_any.isList THEN item.path_begins_with_any.items
    ELSE <<item.path_begins_with_any.str>>

\* C6: the normalised list of a conditions list whose entries carry no
\* 'name' holds the entries in the order given: entry i of the output is
\* entry i of the input.
C6_OrderKept ==
    NoExplicitName(normIn) =>
        /\ ~normOut.error
        /\ Len(Get(normOut.value)) = Len(normIn)
        /\ \A i \in 1..Len(normIn) :
               Get(normOut.value)[i].values = ValuesOf(normIn[i])

\* C7: in every run each create, modify or delete call names the Drafts copy
\* and is issued while a draft exists; a draft call is the first call of its
\* run and is issued only when no draft exists; a publish call comes after a rule mutation and none before it; a run
\* makes at most one draft call and at most one publish call, and a
\* check-mode run makes no call.
C7_DraftPublishOrder ==
    /\ \A i \in 1..Len(calls) :
           calls[i].call \in Mutations =>
               /\ calls[i].onDrafts
               /\ calls[i].draftExisted
    /\ \A i \in CallsOf("draft") : i = 1 /\ ~calls[i].draftExisted
    /\ \A i \in CallsOf("publish") :
           /\ \E j \in 1..(i - 1) : calls[j].call \in Mutations
           /\ \A j \in (i + 1)..Len(calls) : calls[j].call \notin Mutations
    /\ Cardinality(CallsOf("draft")) <= 1
    /\ Cardinality(CallsOf("publish")) <= 1
    /\ params.check_mode => calls = <<>>

\* C7 witness: a run has drafted the policy, modified the rule and published.
C7_Witness ==
    /\ pc = "done"
    /\ Len(calls) = 3
    /\ calls[1].call = "draft"
    /\ calls[2].call = "modify"
    /\ calls[3].call = "publish"

====
